---- MODULE Spec2Model ----
(***************************************************************************)
(* A model of ortfodb's build orchestrator (build.go: PrepareBuild,        *)
(* AcquireBuildLock, BuildSome, WriteDatabase, ReleaseBuildLock) run by    *)
(* two build invocations, concurrent or not, on one output path, alone     *)
(* (Spec) and with a failing lock-file write and kills (SpecFaults); of    *)
(* RunContext.Build's media and blocks loops and AnalyzeAllMediae          *)
(* (SpecWork); of NeedsRebuiling (SpecStale); and of the description       *)
(* parser of ui.go: ExtractAttributesFromAlt (SpecAlt),                    *)
(* SplitOnLanguageMarkers (SpecLang), ParseYAMLHeader (SpecHeader),        *)
(* ParseSingleLanguageDescription (SpecParse).                             *)
(***************************************************************************)
EXTENDS Integers, Sequences, FiniteSets, TLC

\* ------------------------------------------------------------ bounds

\* Number of directories under the database root.
NumItems == 2
\* Size of the pool the random block identifiers are drawn from.
MaxIds == 2
\* Longest alt text given to the sigil decoder.
MaxAltLen == 4
MaxBodyLines == 4
MaxHeaderLines == 4
MaxNodes == 3
MaxTime == 8
\* Most content blocks of one language of a description.
MaxBlocks == 2

AllNames == <<"a", "b", "c", "d">>
Items == {AllNames[i] : i \in 1..NumItems}
\* The build invocations racing on one output path.
Procs == {1, 2}
BlockIds == 1..MaxIds

\* ------------------------------------------------------------ state

VARIABLES
    fs,               \* per directory: "nodesc" | "ok" | "broken" (description unreadable or layout unresolvable)
    lockFile,         \* does .ortfomk-build-lock exist
    outFile,          \* content of the output database file
    metaFile,         \* PreviousBuildDate stored in the build metadata file (0: no file)
    clock,            \* time.Now()
    pc,               \* position of each invocation in BuildSome
    include,          \* BuildSome's include pattern
    prev,             \* ctx.PreviousBuiltDatabase
    ctxMeta,          \* ctx.BuildMetadata.PreviousBuildDate
    workDirectories,  \* BuildSome's workDirectories
    idx,              \* position of BuildSome's loop in workDirectories
    works,            \* BuildSome's works map
    err,              \* the error BuildSome returns ("" for nil)
    startedAfter,     \* history: the invocations that had ended when this one started
    metaAtEnd,        \* history: content of the metadata file when this invocation ended
    alt,              \* input of ExtractAttributesFromAlt
    cleanAlt,         \* first result of ExtractAttributesFromAlt
    attrs,            \* second result of ExtractAttributesFromAlt
    extracted,        \* has ExtractAttributesFromAlt run
    cleanAgain,       \* first result of ExtractAttributesFromAlt on its own clean alt
    attrsAgain,       \* second result of that call
    extractedAgain,   \* has that call run
    markdownRaw,      \* input of SplitOnLanguageMarkers, as strings.Split gives its lines
    before,           \* SplitOnLanguageMarkers's first result
    markdownRawPerLanguage, \* SplitOnLanguageMarkers's second result
    splitDone,        \* has SplitOnLanguageMarkers run
    descriptionRaw,   \* input of ParseYAMLHeader, as strings.Split gives its lines
    rawYAMLPart,      \* ParseYAMLHeader's header text
    markdownPart,     \* ParseYAMLHeader's second result
    metadata,         \* ParseYAMLHeader's first result, the keys decoded from the header
    headerDone,       \* has ParseYAMLHeader run
    bodyChildren,     \* ParseSingleLanguageDescription: the children of the HTML body
    paragraphLike,    \* the children it keeps as paragraph-like
    nodeIdx,          \* position of its classifying loop
    drawn,            \* the IDs its idGenerator has returned, in order
    paragraphs,       \* its result paragraphs
    mediae,           \* its result mediae
    links,            \* its result links
    abbreviations,    \* its result abbreviations
    order,            \* its result order
    processedParagraphs, \* its local processedParagraphs
    parsePc,          \* "input" | "classify" | "returned"
    buildMetadataFile, \* NeedsRebuiling: the file at config.BuildMetadataFilepath
    fileStat,         \* NeedsRebuiling: what os.Stat(absolutePath) gives
    needsRebuild,     \* NeedsRebuiling's result
    staleDone,        \* has NeedsRebuiling run
    description,      \* RunContext.Build: what ParseDescription returned
    unreadable,       \* the media files whose analysis fails
    analyzedMediae,   \* RunContext.Build's analyzedMediae
    localizedContent, \* the Localized field of the work RunContext.Build returns
    buildErr,         \* the error RunContext.Build returns ("" for nil)
    built,            \* has RunContext.Build run
    allAnalyzed,      \* the results of AnalyzeAllMediae
    analyzedAll       \* has AnalyzeAllMediae run

buildVars == <<fs, lockFile, outFile, metaFile, clock, pc, include, prev, ctxMeta,
               workDirectories, idx, works, err, startedAfter, metaAtEnd>>
altVars == <<alt, cleanAlt, attrs, extracted>>
againVars == <<cleanAgain, attrsAgain, extractedAgain>>
langVars == <<markdownRaw, before, markdownRawPerLanguage, splitDone>>
headerVars == <<descriptionRaw, rawYAMLPart, markdownPart, metadata, headerDone>>
parseVars == <<bodyChildren, paragraphLike, nodeIdx, drawn, paragraphs, mediae, links, abbreviations,
               order, processedParagraphs, parsePc>>
staleVars == <<buildMetadataFile, fileStat, needsRebuild, staleDone>>
workVars == <<description, unreadable, analyzedMediae, localizedContent, buildErr, built,
              allAnalyzed, analyzedAll>>
\* Everything but the build's state.
pureVars == <<altVars, againVars, langVars, headerVars, parseVars, staleVars, workVars>>
vars == <<fs, lockFile, outFile, metaFile, clock, pc, include, prev, ctxMeta,
          workDirectories, idx, works, err, startedAfter, metaAtEnd,
          alt, cleanAlt, attrs, extracted, cleanAgain, attrsAgain, extractedAgain,
          markdownRaw, before, markdownRawPerLanguage, splitDone,
          descriptionRaw, rawYAMLPart, markdownPart, metadata, headerDone,
          bodyChildren, paragraphLike, nodeIdx, drawn, paragraphs, mediae, links,
          abbreviations, order, processedParagraphs, parsePc,
          buildMetadataFile, fileStat, needsRebuild, staleDone,
          description, unreadable, analyzedMediae, localizedContent, buildErr, built,
          allAnalyzed, analyzedAll>>

\* ------------------------------------------------------------ data

EmptyMap == [x \in {} |-> 0]
Put(f, k, v) == [x \in DOMAIN f \cup {k} |-> IF x = k THEN v ELSE f[x]]

\* The zero AnalyzedWork, returned by ctx.Build beside an error.
ZeroWork == [ID |-> "", Blocks |-> <<>>]
\* The AnalyzedWork of a directory whose description parses to one block with ID b.
BuiltWork(id, b) == [ID |-> id, Blocks |-> <<b>>]

\* The output file: absent, a JSON array of works, or a JSON object keyed by work ID.
AbsentFile == [kind |-> "absent"]
ArrayFile(list) == [kind |-> "array", list |-> list]
ObjectFile(map) == [kind |-> "object", map |-> map]

\* An output file of array form holding one entry per directory.
RECURSIVE LegacyList(_)
LegacyList(n) == IF n = 0 THEN <<>> ELSE Append(LegacyList(n - 1), BuiltWork(AllNames[n], 1))

\* json.Marshal(works) of a Works map.
EncodeWorks(w) == ObjectFile(w)

\* PrepareBuild: os.ReadFile then json.Unmarshal into a []AnalyzedWork; a missing
\* file, or JSON that is not an array, leaves the empty slice.
DecodePrevious(file) == IF file.kind = "array" THEN file.list ELSE <<>>

\* FindWork(works, id): (found, the work whose ID is id).
FindWorkIndex(list, id) ==
    IF \E i \in 1..Len(list) : list[i].ID = id
    THEN CHOOSE i \in 1..Len(list) : list[i].ID = id /\ \A j \in 1..(i - 1) : list[j].ID # id
    ELSE 0
PresentBefore(list, id) == FindWorkIndex(list, id) # 0
OldWork(list, id) == list[FindWorkIndex(list, id)]

\* The include patterns: the wildcard, a malformed glob, and one literal per directory name.
Patterns == {"*", "["} \cup Items
Malformed(pattern) == pattern = "["
\* BuildSome's included, for a well-formed pattern.
Included(pattern, workID) == pattern = "*" \/ pattern = workID

\* ComputeProgressTotal: the directories holding a description file, in listing order.
RECURSIVE ListWorkDirectories(_)
ListWorkDirectories(n) ==
    IF n = 0 THEN <<>>
    ELSE IF fs[AllNames[n]] = "nodesc" THEN ListWorkDirectories(n - 1)
    ELSE Append(ListWorkDirectories(n - 1), AllNames[n])
Candidates == {i \in Items : fs[i] # "nodesc"}

Terminal == {"done", "aborted"}
\* The positions of an invocation that takes no more step: returned, or killed.
Ended == Terminal \cup {"killed"}
\* Between AcquireBuildLock returning nil and ReleaseBuildLock.
Holding == {"compute", "iterate", "release"}

\* A mutation of NextWorks: the test of presentBefore is lost, and an excluded work
\* absent from the previous database gets FindWork's zero result.
NextWorksNoSkip(w, pattern, list, workID, newWork) ==
    IF Included(pattern, workID) THEN Put(w, workID, newWork)
    ELSE IF PresentBefore(list, workID) THEN Put(w, workID, OldWork(list, workID))
    ELSE Put(w, workID, ZeroWork)

\* BuildSome's loop body after the membership test: the works map once workID is
\* handled, newWork being what ctx.Build returned for it.
NextWorks(w, pattern, list, workID, newWork) ==
    IF Included(pattern, workID) THEN Put(w, workID, newWork)
    ELSE IF PresentBefore(list, workID) THEN Put(w, workID, OldWork(list, workID))
    ELSE w

\* ctx.Build(workID): the possible (work, error) results. The block IDs are drawn
\* at random by nanoid on every parse.
BuildResults(workID) ==
    IF fs[workID] = "ok"
    THEN {[work |-> BuiltWork(workID, b), failed |-> FALSE] : b \in BlockIds}
    ELSE {[work |-> ZeroWork, failed |-> TRUE]}

\* ------------------------------------------------------------ build actions

\* PrepareBuild up to its call of AcquireBuildLock: reads the previous database and
\* the build metadata, creates the media directory.
PrepareBuild(p) ==
    /\ pc[p] = "start"
    /\ \E pattern \in Patterns, mkdirOk \in BOOLEAN :
        /\ include' = [include EXCEPT ![p] = pattern]
        /\ prev' = [prev EXCEPT ![p] = DecodePrevious(outFile)]
        /\ ctxMeta' = [ctxMeta EXCEPT ![p] = metaFile]
        /\ startedAfter' = [startedAfter EXCEPT ![p] = {q \in Procs : pc[q] \in Ended}]
        /\ IF mkdirOk
           THEN /\ pc' = [pc EXCEPT ![p] = "acquire"]
                /\ UNCHANGED <<err, metaAtEnd>>
           ELSE /\ pc' = [pc EXCEPT ![p] = "aborted"]
                /\ err' = [err EXCEPT ![p] = "MediaDir"]
                /\ metaAtEnd' = [metaAtEnd EXCEPT ![p] = metaFile]
    /\ UNCHANGED <<fs, lockFile, outFile, metaFile, clock, workDirectories, idx, works>>
    /\ UNCHANGED pureVars

\* A mutation of AcquireBuildLock: the release is deferred before PrepareBuild's
\* error is tested, so a rejected invocation removes the lock of its owner.
AcquireBuildLockReleasing(p) ==
    /\ pc[p] = "acquire"
    /\ IF lockFile
       THEN /\ pc' = [pc EXCEPT ![p] = "aborted"]
            /\ err' = [err EXCEPT ![p] = "BuildInProgress"]
            /\ metaAtEnd' = [metaAtEnd EXCEPT ![p] = metaFile]
            /\ lockFile' = FALSE
       ELSE /\ pc' = [pc EXCEPT ![p] = "lockwrite"]
            /\ UNCHANGED <<err, metaAtEnd, lockFile>>
    /\ UNCHANGED <<fs, outFile, metaFile, clock, include, prev, ctxMeta,
                   workDirectories, idx, works, startedAfter>>
    /\ UNCHANGED pureVars

\* AcquireBuildLock, its os.Stat of the lock file; PrepareBuild and BuildSome return
\* the error when the file exists.
AcquireBuildLock(p) ==
    /\ pc[p] = "acquire"
    /\ IF lockFile
       THEN /\ pc' = [pc EXCEPT ![p] = "aborted"]
            /\ err' = [err EXCEPT ![p] = "BuildInProgress"]
            /\ metaAtEnd' = [metaAtEnd EXCEPT ![p] = metaFile]
       ELSE /\ pc' = [pc EXCEPT ![p] = "lockwrite"]
            /\ UNCHANGED <<err, metaAtEnd>>
    /\ UNCHANGED <<fs, lockFile, outFile, metaFile, clock, include, prev, ctxMeta,
                   workDirectories, idx, works, startedAfter>>
    /\ UNCHANGED pureVars

\* AcquireBuildLock, its os.WriteFile of the lock file and return nil.
WriteLockFile(p) ==
    /\ pc[p] = "lockwrite"
    /\ lockFile' = TRUE
    /\ pc' = [pc EXCEPT ![p] = "compute"]
    /\ UNCHANGED <<fs, outFile, metaFile, clock, include, prev, ctxMeta,
                   workDirectories, idx, works, err, startedAfter, metaAtEnd>>
    /\ UNCHANGED pureVars

\* A mutation of ComputeProgressTotal: the release is deferred after the test of
\* ComputeProgressTotal's error, so that early return keeps the lock file.
ComputeProgressTotalNoDefer(p) ==
    /\ pc[p] = "compute"
    /\ \E readOk \in BOOLEAN :
        IF readOk
        THEN /\ workDirectories' = [workDirectories EXCEPT ![p] = ListWorkDirectories(NumItems)]
             /\ idx' = [idx EXCEPT ![p] = 1]
             /\ pc' = [pc EXCEPT ![p] = "iterate"]
             /\ UNCHANGED <<err, metaAtEnd>>
        ELSE /\ err' = [err EXCEPT ![p] = "ReadDir"]
             /\ pc' = [pc EXCEPT ![p] = "aborted"]
             /\ metaAtEnd' = [metaAtEnd EXCEPT ![p] = metaFile]
             /\ UNCHANGED <<workDirectories, idx>>
    /\ UNCHANGED <<fs, lockFile, outFile, metaFile, clock, include, prev, ctxMeta,
                   works, startedAfter>>
    /\ UNCHANGED pureVars

\* A mutation of ComputeProgressTotal: BuildSome does not return on
\* ComputeProgressTotal's error and goes on to its loop over no directory.
ComputeProgressTotalIgnoringError(p) ==
    /\ pc[p] = "compute"
    /\ \E readOk \in BOOLEAN :
        IF readOk
        THEN /\ workDirectories' = [workDirectories EXCEPT ![p] = ListWorkDirectories(NumItems)]
             /\ idx' = [idx EXCEPT ![p] = 1]
             /\ pc' = [pc EXCEPT ![p] = "iterate"]
             /\ UNCHANGED err
        ELSE /\ err' = [err EXCEPT ![p] = "ReadDir"]
             /\ workDirectories' = [workDirectories EXCEPT ![p] = <<>>]
             /\ idx' = [idx EXCEPT ![p] = 1]
             /\ pc' = [pc EXCEPT ![p] = "iterate"]
    /\ UNCHANGED <<fs, lockFile, outFile, metaFile, clock, include, prev, ctxMeta,
                   works, startedAfter, metaAtEnd>>
    /\ UNCHANGED pureVars

\* BuildSome: defer ReleaseBuildLock, then ComputeProgressTotal, whose os.ReadDir may fail.
ComputeProgressTotal(p) ==
    /\ pc[p] = "compute"
    /\ \E readOk \in BOOLEAN :
        IF readOk
        THEN /\ workDirectories' = [workDirectories EXCEPT ![p] = ListWorkDirectories(NumItems)]
             /\ idx' = [idx EXCEPT ![p] = 1]
             /\ pc' = [pc EXCEPT ![p] = "iterate"]
             /\ UNCHANGED err
        ELSE /\ err' = [err EXCEPT ![p] = "ReadDir"]
             /\ pc' = [pc EXCEPT ![p] = "release"]
             /\ UNCHANGED <<workDirectories, idx>>
    /\ UNCHANGED <<fs, lockFile, outFile, metaFile, clock, include, prev, ctxMeta,
                   works, startedAfter, metaAtEnd>>
    /\ UNCHANGED pureVars

InLoop(p) == pc[p] = "iterate" /\ idx[p] <= Len(workDirectories[p])
CurrentWork(p) == workDirectories[p][idx[p]]

\* BuildSome's loop, filepath.Match returning ErrBadPattern: return the error.
BadPattern(p) ==
    /\ InLoop(p)
    /\ include[p] # "*" /\ Malformed(include[p])
    /\ err' = [err EXCEPT ![p] = "BadPattern"]
    /\ pc' = [pc EXCEPT ![p] = "release"]
    /\ UNCHANGED <<fs, lockFile, outFile, metaFile, clock, include, prev, ctxMeta,
                   workDirectories, idx, works, startedAfter, metaAtEnd>>
    /\ UNCHANGED pureVars

\* BuildSome's loop, an included work: ctx.Build, which on success ends with
\* UpdateBuildMetadata and WriteBuildMetadata; then works[workID] = newWork.
BuildWork(p) ==
    /\ InLoop(p)
    /\ ~Malformed(include[p])
    /\ Included(include[p], CurrentWork(p))
    /\ \E r \in BuildResults(CurrentWork(p)) :
        /\ works' = [works EXCEPT ![p] = NextWorks(@, include[p], prev[p], CurrentWork(p), r.work)]
        /\ IF r.failed
           THEN UNCHANGED <<clock, ctxMeta, metaFile>>
           ELSE /\ clock' = clock + 1
                /\ ctxMeta' = [ctxMeta EXCEPT ![p] = clock + 1]
                /\ metaFile' = clock + 1
    /\ idx' = [idx EXCEPT ![p] = @ + 1]
    /\ UNCHANGED <<fs, lockFile, outFile, pc, include, prev, workDirectories, err,
                   startedAfter, metaAtEnd>>
    /\ UNCHANGED pureVars

\* BuildSome's loop, a work the pattern excludes: carried over from the previous
\* database, or skipped.
KeepOrSkipWork(p) ==
    /\ InLoop(p)
    /\ ~Malformed(include[p])
    /\ ~Included(include[p], CurrentWork(p))
    /\ works' = [works EXCEPT ![p] = NextWorks(@, include[p], prev[p], CurrentWork(p), ZeroWork)]
    /\ idx' = [idx EXCEPT ![p] = @ + 1]
    /\ UNCHANGED <<fs, lockFile, outFile, metaFile, clock, pc, include, prev, ctxMeta,
                   workDirectories, err, startedAfter, metaAtEnd>>
    /\ UNCHANGED pureVars

\* A mutation of WriteDatabase: the database is written from inside the loop, as
\* soon as one work has been handled.
WriteDatabaseInLoop(p) ==
    /\ pc[p] = "iterate"
    /\ idx[p] > 1
    /\ outFile' = EncodeWorks(works[p])
    /\ pc' = [pc EXCEPT ![p] = "release"]
    /\ UNCHANGED <<fs, lockFile, metaFile, clock, include, prev, ctxMeta,
                   workDirectories, idx, works, err, startedAfter, metaAtEnd>>
    /\ UNCHANGED pureVars

\* WriteDatabase, after the loop.
WriteDatabase(p) ==
    /\ pc[p] = "iterate"
    /\ idx[p] > Len(workDirectories[p])
    /\ outFile' = EncodeWorks(works[p])
    /\ pc' = [pc EXCEPT ![p] = "release"]
    /\ UNCHANGED <<fs, lockFile, metaFile, clock, include, prev, ctxMeta,
                   workDirectories, idx, works, err, startedAfter, metaAtEnd>>
    /\ UNCHANGED pureVars

\* AcquireBuildLock when its os.WriteFile fails: the result is not looked at, and
\* the function returns nil with the lock file as it was.
WriteLockFileFailing(p) ==
    /\ pc[p] = "lockwrite"
    /\ pc' = [pc EXCEPT ![p] = "compute"]
    /\ UNCHANGED <<fs, lockFile, outFile, metaFile, clock, include, prev, ctxMeta,
                   workDirectories, idx, works, err, startedAfter, metaAtEnd>>
    /\ UNCHANGED pureVars

\* A mutation of Interrupt: the deferred ReleaseBuildLock runs when the process is
\* killed.
InterruptReleasing(p) ==
    /\ pc[p] \in {"compute", "iterate"}
    /\ pc' = [pc EXCEPT ![p] = "killed"]
    /\ lockFile' = FALSE
    /\ include' = [include EXCEPT ![p] = "*"]
    /\ prev' = [prev EXCEPT ![p] = <<>>]
    /\ ctxMeta' = [ctxMeta EXCEPT ![p] = 0]
    /\ workDirectories' = [workDirectories EXCEPT ![p] = <<>>]
    /\ idx' = [idx EXCEPT ![p] = 0]
    /\ works' = [works EXCEPT ![p] = EmptyMap]
    /\ UNCHANGED <<fs, outFile, metaFile, clock, err, startedAfter, metaAtEnd>>
    /\ UNCHANGED pureVars

\* The process is killed between AcquireBuildLock's return and WriteDatabase:
\* BuildSome handles no signal, so nothing runs any more, the deferred
\* ReleaseBuildLock included; what the process held in memory is gone, the files
\* stay as they are.
Interrupt(p) ==
    /\ pc[p] \in {"compute", "iterate"}
    /\ pc' = [pc EXCEPT ![p] = "killed"]
    /\ include' = [include EXCEPT ![p] = "*"]
    /\ prev' = [prev EXCEPT ![p] = <<>>]
    /\ ctxMeta' = [ctxMeta EXCEPT ![p] = 0]
    /\ workDirectories' = [workDirectories EXCEPT ![p] = <<>>]
    /\ idx' = [idx EXCEPT ![p] = 0]
    /\ works' = [works EXCEPT ![p] = EmptyMap]
    /\ UNCHANGED <<fs, lockFile, outFile, metaFile, clock, err, startedAfter, metaAtEnd>>
    /\ UNCHANGED pureVars

\* The deferred ReleaseBuildLock, then BuildSome returns.
ReleaseBuildLock(p) ==
    /\ pc[p] = "release"
    /\ lockFile' = FALSE
    /\ pc' = [pc EXCEPT ![p] = IF err[p] = "" THEN "done" ELSE "aborted"]
    /\ metaAtEnd' = [metaAtEnd EXCEPT ![p] = metaFile]
    /\ UNCHANGED <<fs, outFile, metaFile, clock, include, prev, ctxMeta,
                   workDirectories, idx, works, err, startedAfter>>
    /\ UNCHANGED pureVars

\* No second call of ExtractAttributesFromAlt has run.
AgainIdle ==
    /\ cleanAgain = <<>>
    /\ attrsAgain = [Loop |-> FALSE, Autoplay |-> FALSE, Muted |-> FALSE,
                     Playsinline |-> FALSE, Controls |-> FALSE]
    /\ extractedAgain = FALSE

AltIdle ==
    /\ alt = <<>>
    /\ cleanAlt = <<>>
    /\ attrs = [Loop |-> FALSE, Autoplay |-> FALSE, Muted |-> FALSE,
                Playsinline |-> FALSE, Controls |-> FALSE]
    /\ extracted = FALSE
    /\ AgainIdle

LangIdle ==
    /\ markdownRaw = <<>>
    /\ before = <<>>
    /\ markdownRawPerLanguage = EmptyMap
    /\ splitDone = FALSE

HeaderIdle ==
    /\ descriptionRaw = <<>>
    /\ rawYAMLPart = <<>>
    /\ markdownPart = <<>>
    /\ metadata = EmptyMap
    /\ headerDone = FALSE

ParseResultsEmpty ==
    /\ paragraphLike = <<>>
    /\ nodeIdx = 0
    /\ drawn = <<>>
    /\ paragraphs = <<>>
    /\ mediae = <<>>
    /\ links = <<>>
    /\ abbreviations = EmptyMap
    /\ order = <<>>
    /\ processedParagraphs = <<>>
    /\ parsePc = "input"

ParseIdle ==
    /\ bodyChildren = <<>>
    /\ ParseResultsEmpty

StaleIdle ==
    /\ buildMetadataFile = [state |-> "missing", PreviousBuildDate |-> 0]
    /\ fileStat = [err |-> TRUE, ModTime |-> 0]
    /\ needsRebuild = FALSE
    /\ staleDone = FALSE

Languages == {"en", "fr"}

\* RunContext.Build and AnalyzeAllMediae have not run, on a description without
\* content blocks.
WorkIdle ==
    /\ description = [paragraphs |-> [l \in Languages |-> <<>>],
                      mediaEmbedDeclarations |-> [l \in Languages |-> <<>>],
                      links |-> [l \in Languages |-> <<>>],
                      contentBlocksOrders |-> [l \in Languages |-> <<>>]]
    /\ unreadable = {}
    /\ analyzedMediae = EmptyMap
    /\ localizedContent = EmptyMap
    /\ buildErr = ""
    /\ built = FALSE
    /\ allAnalyzed = [mediae |-> EmptyMap, err |-> FALSE]
    /\ analyzedAll = FALSE

\* The pure functions' state while a specification does not exercise them.
OthersIdle == LangIdle /\ HeaderIdle /\ ParseIdle /\ StaleIdle

BuildIdle ==
    /\ lockFile = FALSE
    /\ metaFile = 0
    /\ clock = 0
    /\ pc = [p \in Procs |-> "start"]
    /\ include = [p \in Procs |-> "*"]
    /\ prev = [p \in Procs |-> <<>>]
    /\ ctxMeta = [p \in Procs |-> 0]
    /\ workDirectories = [p \in Procs |-> <<>>]
    /\ idx = [p \in Procs |-> 0]
    /\ works = [p \in Procs |-> EmptyMap]
    /\ err = [p \in Procs |-> ""]
    /\ startedAfter = [p \in Procs |-> {}]
    /\ metaAtEnd = [p \in Procs |-> 0]

\* No invocation has started; the output file is missing or was left, in array
\* form, by an earlier run.
Init ==
    /\ WorkIdle
    /\ fs \in [Items -> {"nodesc", "ok", "broken"}]
    /\ outFile \in {AbsentFile, ArrayFile(LegacyList(NumItems))}
    /\ BuildIdle
    /\ AltIdle
    /\ OthersIdle

Next ==
    \E p \in Procs :
        \/ PrepareBuild(p)
        \/ AcquireBuildLock(p)
        \/ WriteLockFile(p)
        \/ ComputeProgressTotal(p)
        \/ BadPattern(p)
        \/ BuildWork(p)
        \/ KeepOrSkipWork(p)
        \/ WriteDatabase(p)
        \/ ReleaseBuildLock(p)

Spec == Init /\ [][Next]_vars

\* The build with the faults of its environment: a lock file that cannot be
\* written, a process killed in mid-build.
NextFaults ==
    \/ Next
    \/ \E p \in Procs : WriteLockFileFailing(p)
    \/ \E p \in Procs : Interrupt(p)

SpecFaults == Init /\ [][NextFaults]_vars

\* ------------------------------------------------------------ sigil decoder

RuneLoop == "~"
RuneAutoplay == ">"
RuneHideControls == "="

isMediaEmbedAttribute(char) ==
    char = RuneAutoplay \/ char = RuneLoop \/ char = RuneHideControls

DefaultAttributes ==
    [Loop |-> FALSE, Autoplay |-> FALSE, Muted |-> FALSE, Playsinline |-> FALSE,
     Controls |-> TRUE]

\* A mutation of ApplySigil: the autoplay sigil does not mute.
ApplySigilUnmuted(a, char) ==
    IF char = RuneAutoplay THEN [a EXCEPT !.Autoplay = TRUE]
    ELSE IF char = RuneLoop THEN [a EXCEPT !.Loop = TRUE]
    ELSE IF char = RuneHideControls THEN [a EXCEPT !.Controls = FALSE, !.Playsinline = TRUE]
    ELSE a

\* ExtractAttributesFromAlt's loop body in the attributes zone.
ApplySigil(a, char) ==
    IF char = RuneAutoplay THEN [a EXCEPT !.Autoplay = TRUE, !.Muted = TRUE]
    ELSE IF char = RuneLoop THEN [a EXCEPT !.Loop = TRUE]
    ELSE IF char = RuneHideControls THEN [a EXCEPT !.Controls = FALSE, !.Playsinline = TRUE]
    ELSE a

\* ExtractAttributesFromAlt's backward loop, from rune i down to the first.
RECURSIVE ScanAlt(_, _, _, _, _)
ScanAlt(s, i, inAttributesZone, altText, a) ==
    IF i = 0 THEN [alt |-> altText, attrs |-> a]
    ELSE IF s[i] = " " /\ inAttributesZone THEN ScanAlt(s, i - 1, FALSE, altText, a)
    ELSE IF inAttributesZone THEN ScanAlt(s, i - 1, TRUE, altText, ApplySigil(a, s[i]))
    ELSE ScanAlt(s, i - 1, FALSE, <<s[i]>> \o altText, a)

ExtractAttributesFromAlt(s) ==
    IF Len(s) = 0 \/ ~isMediaEmbedAttribute(s[Len(s)])
    THEN [alt |-> s, attrs |-> DefaultAttributes]
    ELSE ScanAlt(s, Len(s), TRUE, <<>>, DefaultAttributes)

\* The alt texts tried: every string of at most MaxAltLen of these runes, and "a photo>".
AltRunes == {"a", "p", " ", "~", ">", "="}
RECURSIVE StringsUpTo(_)
StringsUpTo(n) ==
    IF n = 0 THEN {<<>>}
    ELSE LET shorter == StringsUpTo(n - 1)
         IN  shorter \cup {Append(t, c) : t \in shorter, c \in AltRunes}
APhotoAutoplay == <<"a", " ", "p", "h", "o", "t", "o", ">">>
APhoto == <<"a", " ", "p", "h", "o", "t", "o">>
AltInputs == StringsUpTo(MaxAltLen) \cup {APhotoAutoplay}

\* A call of ExtractAttributesFromAlt on the alt text of a media embed.
ExtractAlt ==
    /\ ~extracted
    /\ cleanAlt' = ExtractAttributesFromAlt(alt).alt
    /\ attrs' = ExtractAttributesFromAlt(alt).attrs
    /\ extracted' = TRUE
    /\ UNCHANGED alt
    /\ UNCHANGED <<buildVars, againVars, langVars, headerVars, parseVars, staleVars, workVars>>

\* A second call of ExtractAttributesFromAlt, on the clean alt the first returned.
ExtractAgain ==
    /\ extracted
    /\ ~extractedAgain
    /\ cleanAgain' = ExtractAttributesFromAlt(cleanAlt).alt
    /\ attrsAgain' = ExtractAttributesFromAlt(cleanAlt).attrs
    /\ extractedAgain' = TRUE
    /\ UNCHANGED <<buildVars, altVars, langVars, headerVars, parseVars, staleVars, workVars>>

InitAlt ==
    /\ WorkIdle
    /\ alt \in AltInputs
    /\ cleanAlt = <<>>
    /\ attrs = [Loop |-> FALSE, Autoplay |-> FALSE, Muted |-> FALSE,
                Playsinline |-> FALSE, Controls |-> FALSE]
    /\ extracted = FALSE
    /\ AgainIdle
    /\ OthersIdle
    /\ fs = [i \in Items |-> "nodesc"]
    /\ outFile = AbsentFile
    /\ BuildIdle

NextAlt == ExtractAlt \/ ExtractAgain

SpecAlt == InitAlt /\ [][NextAlt]_vars

\* ------------------------------------------------------------ SplitOnLanguageMarkers

\* Texts are sequences of one-character strings; "\n" is the newline.
\* strings.Split(s, "\n"): the pieces between the newlines, the empty ones included.
RECURSIVE SplitNewlines(_, _, _)
SplitNewlines(s, i, piece) ==
    IF i > Len(s) THEN <<piece>>
    ELSE IF s[i] = "\n" THEN <<piece>> \o SplitNewlines(s, i + 1, <<>>)
    ELSE SplitNewlines(s, i + 1, Append(piece, s[i]))
StringsSplit(s) == SplitNewlines(s, 1, <<>>)

\* The runes \s matches, of those the inputs use.
Whitespace == {" ", "\t"}

\* PatternLanguageMarker, ^::\s+(.+)$ : two colons, at least one whitespace rune,
\* at least one more rune.
MatchLanguageMarker(line) ==
    /\ Len(line) >= 4
    /\ line[1] = ":" /\ line[2] = ":"
    /\ line[3] \in Whitespace

\* The length of the run of whitespace that starts at position i of the line.
RECURSIVE WhitespaceRun(_, _)
WhitespaceRun(line, i) ==
    IF i <= Len(line) /\ line[i] \in Whitespace THEN 1 + WhitespaceRun(line, i + 1) ELSE 0

\* pattern.FindStringSubmatch(line)[1] of a matching line: \s+ is greedy and gives
\* back one rune only when nothing would be left for (.+).
LanguageMarkerSubmatch(line) ==
    LET run == WhitespaceRun(line, 3)
    IN  IF 2 + run < Len(line) THEN SubSeq(line, 3 + run, Len(line))
        ELSE SubSeq(line, Len(line), Len(line))

\* The loop of SplitOnLanguageMarkers from line i on.
RECURSIVE SplitLoop(_, _, _, _, _)
SplitLoop(lines, i, currentLanguage, bef, perLanguage) ==
    IF i > Len(lines) THEN [before |-> bef, markdownRawPerLanguage |-> perLanguage]
    ELSE LET line == lines[i]
             matched == MatchLanguageMarker(line)
             language == IF matched THEN LanguageMarkerSubmatch(line) ELSE currentLanguage
             reset == IF matched THEN Put(perLanguage, language, <<>>) ELSE perLanguage
         IN  IF language = <<>>
             THEN SplitLoop(lines, i + 1, language, bef \o line \o <<"\n">>, reset)
             ELSE SplitLoop(lines, i + 1, language, bef,
                            Put(reset, language, reset[language] \o line \o <<"\n">>))

SplitOnLanguageMarkers(raw) == SplitLoop(StringsSplit(raw), 1, <<>>, <<>>, EmptyMap)

\* The lines the bodies are made of: the two markers of the specification, a marker
\* with two spaces, a line that lacks the whitespace, text, an empty line.
MarkerEn == <<":", ":", " ", "e", "n">>
MarkerFr == <<":", ":", " ", "f", "r">>
BodyLines == {MarkerEn, MarkerFr, <<":", ":", " ", " ", "e", "n">>, <<":", ":", "e", "n">>,
              <<"a">>, <<>>}

\* strings.Join(lines, "\n")
RECURSIVE JoinLines(_)
JoinLines(ls) ==
    IF Len(ls) = 0 THEN <<>>
    ELSE IF Len(ls) = 1 THEN ls[1]
    ELSE ls[1] \o <<"\n">> \o JoinLines(Tail(ls))

RECURSIVE LineSeqsUpTo(_, _)
LineSeqsUpTo(n, lineSet) ==
    IF n = 0 THEN {<<>>}
    ELSE LET shorter == LineSeqsUpTo(n - 1, lineSet)
         IN  shorter \cup {Append(t, l) : t \in shorter, l \in lineSet}

BodyInputs == {JoinLines(ls) : ls \in LineSeqsUpTo(MaxBodyLines, BodyLines)}

\* A call of SplitOnLanguageMarkers, as ParseDescription makes it.
SplitBody ==
    /\ ~splitDone
    /\ before' = SplitOnLanguageMarkers(markdownRaw).before
    /\ markdownRawPerLanguage' = SplitOnLanguageMarkers(markdownRaw).markdownRawPerLanguage
    /\ splitDone' = TRUE
    /\ UNCHANGED markdownRaw
    /\ UNCHANGED <<buildVars, altVars, againVars, headerVars, parseVars, staleVars, workVars>>

InitLang ==
    /\ WorkIdle
    /\ markdownRaw \in BodyInputs
    /\ before = <<>>
    /\ markdownRawPerLanguage = EmptyMap
    /\ splitDone = FALSE
    /\ HeaderIdle /\ ParseIdle /\ StaleIdle
    /\ AltIdle
    /\ fs = [i \in Items |-> "nodesc"]
    /\ outFile = AbsentFile
    /\ BuildIdle

NextLang == SplitBody

SpecLang == InitLang /\ [][NextLang]_vars

\* ------------------------------------------------------------ ParseYAMLHeader

\* The tab loop of ParseYAMLHeader: while the line has the prefix "\t", the prefix
\* is trimmed and four spaces are put in front.
RECURSIVE ReplaceTabs(_)
ReplaceTabs(line) ==
    IF Len(line) > 0 /\ line[1] = "\t"
    THEN ReplaceTabs(<<" ", " ", " ", " ">> \o Tail(line))
    ELSE line

\* strings.Trim(line, "-") == "" && strings.Count(line, "-") >= 3
IsHeaderSeparator(line) ==
    /\ \A i \in 1..Len(line) : line[i] = "-"
    /\ Len(line) >= 3

\* A mutation of HeaderLoop: a separator line toggles inYAMLHeader without the
\* continue, and is appended to the part it opens.
RECURSIVE HeaderLoopKeepingSeparators(_, _, _, _, _)
HeaderLoopKeepingSeparators(lines, i, inYAMLHeader, rawYAML, markdown) ==
    IF i > Len(lines) THEN [rawYAMLPart |-> rawYAML, markdownPart |-> markdown]
    ELSE LET line == ReplaceTabs(lines[i])
             inside == IF IsHeaderSeparator(line) THEN ~inYAMLHeader ELSE inYAMLHeader
         IN  IF inside
             THEN HeaderLoopKeepingSeparators(lines, i + 1, inside,
                                              rawYAML \o line \o <<"\n">>, markdown)
             ELSE HeaderLoopKeepingSeparators(lines, i + 1, inside,
                                              rawYAML, markdown \o line \o <<"\n">>)

\* The loop of ParseYAMLHeader from line i on.
RECURSIVE HeaderLoop(_, _, _, _, _)
HeaderLoop(lines, i, inYAMLHeader, rawYAML, markdown) ==
    IF i > Len(lines) THEN [rawYAMLPart |-> rawYAML, markdownPart |-> markdown]
    ELSE LET line == ReplaceTabs(lines[i])
         IN  IF IsHeaderSeparator(line)
             THEN HeaderLoop(lines, i + 1, ~inYAMLHeader, rawYAML, markdown)
             ELSE IF inYAMLHeader
             THEN HeaderLoop(lines, i + 1, inYAMLHeader, rawYAML \o line \o <<"\n">>, markdown)
             ELSE HeaderLoop(lines, i + 1, inYAMLHeader, rawYAML, markdown \o line \o <<"\n">>)

\* The lines the documents are made of: separators of three and four dashes, two
\* dashes, a key, the key behind one and two tabs, text, text with a tab inside, an
\* empty line.
KeyLine == <<"k", ":", " ", "v">>
HeaderLines == {<<"-", "-", "-">>, <<"-", "-", "-", "-">>, <<"-", "-">>,
                KeyLine, <<"\t">> \o KeyLine, <<"\t", "\t">> \o KeyLine,
                <<"a">>, <<"a", "\t", "b">>, <<>>}

\* yaml.Unmarshal into a map, nil replaced by an empty map, then mapstructure.Decode,
\* on the header texts these lines give: a text whose lines, the empty ones aside,
\* are all the key at one indentation of spaces decodes to that key (an unknown key,
\* kept in AdditionalMetadata); a text with no line but empty ones decodes to nil;
\* any other text (a bare scalar, mixed indentation, a tab in the indentation) is an
\* error that leaves the map nil.
FourSpaces == <<" ", " ", " ", " ">>
DecodeMetadata(rawYAML) ==
    LET ls == StringsSplit(rawYAML)
        full == {ls[i] : i \in 1..Len(ls)} \ {<<>>}
    IN  IF full = {KeyLine} \/ full = {FourSpaces \o KeyLine}
        THEN [x \in {"k"} |-> "v"]
        ELSE EmptyMap

ParseYAMLHeader(raw) ==
    LET parts == HeaderLoop(StringsSplit(raw), 1, FALSE, <<>>, <<>>)
    IN  [metadata |-> DecodeMetadata(parts.rawYAMLPart),
         rawYAMLPart |-> parts.rawYAMLPart,
         markdownPart |-> parts.markdownPart]

HeaderInputs == {JoinLines(ls) : ls \in LineSeqsUpTo(MaxHeaderLines, HeaderLines)}

\* A call of ParseYAMLHeader, as ParseDescription makes it.
ParseHeader ==
    /\ ~headerDone
    /\ LET parsed == ParseYAMLHeader(descriptionRaw)
       IN  /\ rawYAMLPart' = parsed.rawYAMLPart
           /\ markdownPart' = parsed.markdownPart
           /\ metadata' = parsed.metadata
    /\ headerDone' = TRUE
    /\ UNCHANGED descriptionRaw
    /\ UNCHANGED <<buildVars, altVars, againVars, langVars, parseVars, staleVars, workVars>>

InitHeader ==
    /\ WorkIdle
    /\ descriptionRaw \in HeaderInputs
    /\ rawYAMLPart = <<>>
    /\ markdownPart = <<>>
    /\ metadata = EmptyMap
    /\ headerDone = FALSE
    /\ LangIdle /\ ParseIdle /\ StaleIdle
    /\ AltIdle
    /\ fs = [i \in Items |-> "nodesc"]
    /\ outFile = AbsentFile
    /\ BuildIdle

NextHeader == ParseHeader

SpecHeader == InitHeader /\ [][NextHeader]_vars

\* ------------------------------------------------------------ ParseSingleLanguageDescription

\* HTML text is a sequence of words; a word an <abbr> element wraps carries the
\* element's title, any other word an empty one.
Word(w) == [word |-> w, abbr |-> ""]
Words(ws) == [i \in 1..Len(ws) |-> Word(ws[i])]

\* A child of the body: its tag, the tag of its only child ("text" for a text node),
\* the alt attribute of that child, its inner HTML.
Node(tag, child, altText, inner) == [tag |-> tag, child |-> child, alt |-> altText, inner |-> inner]
ImgNode == Node("p", "img", APhotoAutoplay, <<>>)
LinkNode == Node("p", "a", <<>>, Words(<<"site">>))
AbbrNodeAPI == Node("p", "text", <<>>, Words(<<"*[", "API", "]:", "Application Programming Interface">>))
AbbrNodeUI == Node("p", "text", <<>>, Words(<<"*[", "UI", "]:", "User Interface">>))
MarkerNode == Node("p", "text", <<>>, Words(<<"::", "en">>))
TextNode == Node("p", "text", <<>>, Words(<<"Use", "the", "API", "now">>))
TwoTermsNode == Node("p", "text", <<>>, Words(<<"API", "UI">>))
PreNode == Node("pre", "code", <<>>, Words(<<"API">>))
TitleNode == Node("h1", "text", <<>>, Words(<<"Title">>))
Nodes == {ImgNode, LinkNode, AbbrNodeAPI, AbbrNodeUI, MarkerNode, TextNode, TwoTermsNode,
          PreNode, TitleNode}

\* The names of paragraphLikeTagNames; strings.Contains finds a tag of Nodes in that
\* string exactly when the tag is one of these names.
paragraphLikeTagNames ==
    {"p", "ol", "ul", "h2", "h3", "h4", "h5", "h6", "dl", "blockquote", "hr", "pre"}

\* PatternAbbreviationDefinition on an inner HTML: *[name]: definition
MatchesAbbreviationDefinition(inner) ==
    Len(inner) = 4 /\ inner[1] = Word("*[") /\ inner[3] = Word("]:")
\* A mutation of MatchesLanguageMarker: no inner HTML is taken for a marker.
MatchesNoLanguageMarker(inner) == FALSE
\* PatternLanguageMarker on an inner HTML: :: language
MatchesLanguageMarker(inner) ==
    Len(inner) = 2 /\ inner[1] = Word("::")

\* paragraph.HTML(): the element with its tag.
ElementHTML(node) == [tag |-> node.tag, inner |-> node.inner]
\* HasPrefix(Content, "<pre>") && HasSuffix(Content, "</pre>")
IsPreformatted(content) == content.tag = "pre"

\* The values nanoid's generator returns.
IdPool == {"id1", "id2", "id3"}

\* replacePattern.ReplaceAllString: every whole word equal to the name is wrapped in
\* an <abbr> element titled with the definition.
ReplaceAllWord(content, name, definition) ==
    [content EXCEPT !.inner = [i \in 1..Len(content.inner) |->
        IF content.inner[i] = Word(name) THEN [word |-> name, abbr |-> definition]
        ELSE content.inner[i]]]

\* ReplaceAbbreviations: each pass of its loop replaces in paragraph.Content, not in
\* the result of the pass before, so the result is the replacement of the name the
\* map's iteration visits last, whichever that is; the Paragraph returned has the
\* content only.
ReplaceAbbreviations(paragraph, currentLanguageAbbreviations) ==
    IF DOMAIN currentLanguageAbbreviations = {}
    THEN {[ID |-> "", Anchor |-> "", Content |-> paragraph.Content]}
    ELSE {[ID |-> "", Anchor |-> "",
           Content |-> ReplaceAllWord(paragraph.Content, name, currentLanguageAbbreviations[name])]
            : name \in DOMAIN currentLanguageAbbreviations}

\* The values processedParagraphs can take: the paragraphs that are not
\* preformatted, each through ReplaceAbbreviations.
RECURSIVE ProcessParagraphs(_, _)
ProcessParagraphs(ps, abbrs) ==
    IF Len(ps) = 0 THEN {<<>>}
    ELSE IF IsPreformatted(ps[1].Content) THEN ProcessParagraphs(Tail(ps), abbrs)
    ELSE {<<first>> \o rest : first \in ReplaceAbbreviations(ps[1], abbrs),
                              rest \in ProcessParagraphs(Tail(ps), abbrs)}

\* The first loop: the children whose tag is paragraph-like.
CollectParagraphLike ==
    /\ parsePc = "input"
    /\ paragraphLike' = SelectSeq(bodyChildren, LAMBDA n : n.tag \in paragraphLikeTagNames)
    /\ nodeIdx' = 1
    /\ parsePc' = "classify"
    /\ UNCHANGED <<bodyChildren, drawn, paragraphs, mediae, links, abbreviations, order,
                   processedParagraphs>>
    /\ UNCHANGED <<buildVars, altVars, againVars, langVars, headerVars, staleVars, workVars>>


\* One pass of the second loop: an ID from the generator, then the node is a media
\* embed, an isolated link, an abbreviation definition, a language marker or a
\* paragraph.
ClassifyNode ==
    /\ parsePc = "classify"
    /\ nodeIdx <= Len(paragraphLike)
    /\ \E id \in IdPool :
        LET paragraph == paragraphLike[nodeIdx]
        IN  /\ drawn' = Append(drawn, id)
            /\ IF paragraph.child = "img"
               THEN /\ mediae' = Append(mediae,
                                   [ID |-> id,
                                    Alt |-> ExtractAttributesFromAlt(paragraph.alt).alt,
                                    Attributes |-> ExtractAttributesFromAlt(paragraph.alt).attrs])
                    /\ order' = Append(order, id)
                    /\ UNCHANGED <<links, abbreviations, paragraphs>>
               ELSE IF paragraph.child = "a"
               THEN /\ links' = Append(links, [ID |-> id, Text |-> paragraph.inner])
                    /\ order' = Append(order, id)
                    /\ UNCHANGED <<mediae, abbreviations, paragraphs>>
               ELSE IF MatchesAbbreviationDefinition(paragraph.inner)
               THEN /\ abbreviations' = Put(abbreviations, paragraph.inner[2].word,
                                           paragraph.inner[4].word)
                    /\ UNCHANGED <<mediae, links, paragraphs, order>>
               ELSE IF MatchesLanguageMarker(paragraph.inner)
               THEN UNCHANGED <<mediae, links, abbreviations, paragraphs, order>>
               ELSE /\ paragraphs' = Append(paragraphs,
                                       [ID |-> id, Anchor |-> "", Content |-> ElementHTML(paragraph)])
                    /\ order' = Append(order, id)
                    /\ UNCHANGED <<mediae, links, abbreviations>>
    /\ nodeIdx' = nodeIdx + 1
    /\ UNCHANGED <<bodyChildren, paragraphLike, processedParagraphs, parsePc>>
    /\ UNCHANGED <<buildVars, altVars, againVars, langVars, headerVars, staleVars, workVars>>

\* After the loop: processedParagraphs is computed, and the bare return gives back
\* the named results, paragraphs among them, as the loop left them.
ReturnParsed ==
    /\ parsePc = "classify"
    /\ nodeIdx > Len(paragraphLike)
    /\ processedParagraphs' \in ProcessParagraphs(paragraphs, abbreviations)
    /\ parsePc' = "returned"
    /\ UNCHANGED <<bodyChildren, paragraphLike, nodeIdx, drawn, paragraphs, mediae, links,
                   abbreviations, order>>
    /\ UNCHANGED <<buildVars, altVars, againVars, langVars, headerVars, staleVars, workVars>>

RECURSIVE NodeSeqsUpTo(_)
NodeSeqsUpTo(n) ==
    IF n = 0 THEN {<<>>}
    ELSE LET shorter == NodeSeqsUpTo(n - 1)
         IN  shorter \cup {Append(t, x) : t \in shorter, x \in Nodes}

InitParse ==
    /\ WorkIdle
    /\ bodyChildren \in NodeSeqsUpTo(MaxNodes)
    /\ ParseResultsEmpty
    /\ LangIdle /\ HeaderIdle /\ StaleIdle
    /\ AltIdle
    /\ fs = [i \in Items |-> "nodesc"]
    /\ outFile = AbsentFile
    /\ BuildIdle

NextParse == CollectParagraphLike \/ ClassifyNode \/ ReturnParsed

SpecParse == InitParse /\ [][NextParse]_vars

\* ------------------------------------------------------------ NeedsRebuiling

\* Times are 0..MaxTime. The build metadata file is missing, is not YAML, or holds
\* a previous build date.
Times == 0..MaxTime
MetadataFiles ==
    {[state |-> "missing", PreviousBuildDate |-> 0], [state |-> "garbage", PreviousBuildDate |-> 0]}
        \cup {[state |-> "yaml", PreviousBuildDate |-> t] : t \in Times}
\* os.Stat: an error, or the modification time.
StatResults == {[err |-> TRUE, ModTime |-> 0]} \cup {[err |-> FALSE, ModTime |-> t] : t \in Times}

\* config.BuildMetadata(): readFileBytes, then yaml.Unmarshal.
BuildMetadata(file) ==
    IF file.state = "yaml"
    THEN [err |-> FALSE, metadata |-> [PreviousBuildDate |-> file.PreviousBuildDate]]
    ELSE [err |-> TRUE, metadata |-> [PreviousBuildDate |-> 0]]

\* A mutation of After: a time is after itself.
NotBefore(t, u) == t >= u

\* time.Time.After
After(t, u) == t > u

NeedsRebuiling(file, stat) ==
    IF BuildMetadata(file).err THEN TRUE
    ELSE IF stat.err THEN TRUE
    ELSE After(stat.ModTime, BuildMetadata(file).metadata.PreviousBuildDate)

\* A call of NeedsRebuiling.
CheckStale ==
    /\ ~staleDone
    /\ needsRebuild' = NeedsRebuiling(buildMetadataFile, fileStat)
    /\ staleDone' = TRUE
    /\ UNCHANGED <<buildMetadataFile, fileStat>>
    /\ UNCHANGED <<buildVars, altVars, againVars, langVars, headerVars, parseVars, workVars>>

InitStale ==
    /\ WorkIdle
    /\ buildMetadataFile \in MetadataFiles
    /\ fileStat \in StatResults
    /\ needsRebuild = FALSE
    /\ staleDone = FALSE
    /\ LangIdle /\ HeaderIdle /\ ParseIdle
    /\ AltIdle
    /\ fs = [i \in Items |-> "nodesc"]
    /\ outFile = AbsentFile
    /\ BuildIdle

NextStale == CheckStale

SpecStale == InitStale /\ [][NextStale]_vars

\* ------------------------------------------------------------ RunContext.Build: media and blocks

\* The media files a description refers to, and a source that is a URL.
MediaFiles == {"a.png", "b.mp4"}
OnlineSource == "https://x.org/c.png"
Sources == MediaFiles \cup {OnlineSource}

isValidURL(source) == source = OnlineSource

\* slugify.Marshal(filepathBaseNoExt(filename), true)
FileSlug(filename) == IF filename = "a.png" THEN "a" ELSE "b"

\* The content blocks of a description's body: a paragraph, an isolated link, a media
\* embed of some source.
BlockKinds ==
    {[kind |-> "paragraph", source |-> ""], [kind |-> "link", source |-> ""]}
        \cup {[kind |-> "media", source |-> s] : s \in Sources}

BlockSeqsUpTo(n) == UNION {[1..k -> BlockKinds] : k \in 0..n}

\* The identifier of the i-th block of a language: idGenerator's draws, here all
\* different.
BlockID(lang, i) == <<lang, i>>

\* The blocks of one kind of a language's body, in document order.
RECURSIVE BlocksOfKind(_, _, _, _)
BlocksOfKind(lang, body, kind, i) ==
    IF i > Len(body) THEN <<>>
    ELSE (IF body[i].kind = kind
          THEN <<[ID |-> BlockID(lang, i), Source |-> body[i].source]>>
          ELSE <<>>) \o BlocksOfKind(lang, body, kind, i + 1)

\* What ParseDescription returns for the bodies of the languages: the paragraphs,
\* media embed declarations and links, and the order of their IDs.
ParsedDescription(bodies) ==
    [paragraphs |-> [l \in Languages |-> BlocksOfKind(l, bodies[l], "paragraph", 1)],
     mediaEmbedDeclarations |-> [l \in Languages |-> BlocksOfKind(l, bodies[l], "media", 1)],
     links |-> [l \in Languages |-> BlocksOfKind(l, bodies[l], "link", 1)],
     contentBlocksOrders |-> [l \in Languages |-> [i \in 1..Len(bodies[l]) |-> BlockID(l, i)]]]

\* The orders in which a range over a map keyed by language can run.
LanguageOrders == {<<"en", "fr">>, <<"fr", "en">>}

ZeroMedia == [ID |-> "", Source |-> "", Online |-> FALSE]

\* ctx.HandleMedia: the analyzed media of a declaration, under the declaration's block
\* ID, or an error when the analysis of its file fails; a URL is not analyzed.
HandleMedia(media) ==
    IF isValidURL(media.Source)
    THEN [media |-> [ID |-> media.ID, Source |-> media.Source, Online |-> TRUE], err |-> FALSE]
    ELSE IF media.Source \in unreadable
    THEN [media |-> ZeroMedia, err |-> TRUE]
    ELSE [media |-> [ID |-> media.ID, Source |-> media.Source, Online |-> FALSE], err |-> FALSE]

\* RunContext.Build, its loop over the media of one language: a media whose
\* HandleMedia fails is logged and left out.
RECURSIVE HandleMediae(_, _)
HandleMediae(declarations, analyzed) ==
    IF declarations = <<>> THEN analyzed
    ELSE LET r == HandleMedia(Head(declarations))
         IN  HandleMediae(Tail(declarations),
                          IF r.err THEN analyzed ELSE Append(analyzed, r.media))

\* The first element of a language's list whose ID is id, the languages taken in the
\* order langs; <<>> when there is none.
RECURSIVE FirstByID(_, _, _)
FirstByID(id, byLanguage, langs) ==
    IF langs = <<>> THEN <<>>
    ELSE LET list == IF Head(langs) \in DOMAIN byLanguage THEN byLanguage[Head(langs)] ELSE <<>>
             found == SelectSeq(list, LAMBDA e : e.ID = id)
         IN  IF found # <<>> THEN <<Head(found)>> ELSE FirstByID(id, byLanguage, Tail(langs))

\* ContentBlockByID, its ranges over the three maps running in the order langs.
ContentBlockByID(id, allLanguagesParagraphs, allLanguagesMediae, allLanguagesLinks, langs) ==
    LET paragraph == FirstByID(id, allLanguagesParagraphs, langs)
        media == FirstByID(id, allLanguagesMediae, langs)
        link == FirstByID(id, allLanguagesLinks, langs)
    IN  IF paragraph # <<>> THEN [block |-> [Type |-> "paragraph", ID |-> paragraph[1].ID], ok |-> TRUE]
        ELSE IF media # <<>> THEN [block |-> [Type |-> "media", ID |-> media[1].ID], ok |-> TRUE]
        ELSE IF link # <<>> THEN [block |-> [Type |-> "link", ID |-> link[1].ID], ok |-> TRUE]
        ELSE [block |-> [Type |-> "", ID |-> ""], ok |-> FALSE]

\* RunContext.Build, its loop over a language's ContentBlocksOrders: an ID that
\* ContentBlockByID does not find is logged and left out.
RECURSIVE BlocksLoop(_, _, _, _, _)
BlocksLoop(ids, parsed, analyzed, langs, blocks) ==
    IF ids = <<>> THEN blocks
    ELSE LET r == ContentBlockByID(Head(ids), parsed.paragraphs, analyzed, parsed.links, langs)
         IN  BlocksLoop(Tail(ids), parsed, analyzed, langs,
                        IF r.ok THEN Append(blocks, r.block) ELSE blocks)

\* RunContext.Build: the description is read and parsed, every media handled, and,
\* unless ResolveLayout fails for a language, the blocks of every language collected.
Build ==
    /\ ~built
    /\ \E readOk \in BOOLEAN, layoutErrs \in SUBSET Languages, langs \in LanguageOrders :
          IF ~readOk
          THEN /\ buildErr' = "ReadFile"
               /\ UNCHANGED <<analyzedMediae, localizedContent>>
          ELSE LET analyzed == [l \in Languages |->
                                   HandleMediae(description.mediaEmbedDeclarations[l], <<>>)]
               IN  /\ analyzedMediae' = analyzed
                   /\ IF layoutErrs # {}
                      THEN /\ buildErr' = "ResolveLayout"
                           /\ UNCHANGED localizedContent
                      ELSE /\ buildErr' = ""
                           /\ localizedContent' =
                                  [l \in Languages |->
                                      [Blocks |-> BlocksLoop(description.contentBlocksOrders[l],
                                                             description, analyzed, langs, <<>>)]]
    /\ built' = TRUE
    /\ UNCHANGED <<description, unreadable, allAnalyzed, analyzedAll>>
    /\ UNCHANGED <<buildVars, altVars, againVars, langVars, headerVars, parseVars, staleVars>>

\* AnalyzeMediaFile: the analyzed media, under the slug of the file's name, or the
\* error of opening or probing the file.
AnalyzeMediaFile(filename) ==
    IF filename \in unreadable
    THEN [media |-> ZeroMedia, err |-> TRUE]
    ELSE [media |-> [ID |-> FileSlug(filename), Source |-> filename, Online |-> FALSE],
          err |-> FALSE]

\* AnalyzeAllMediae, its loop over the media of one language; bySource holds the
\* files analyzed so far.
RECURSIVE AnalyzeLanguage(_, _, _)
AnalyzeLanguage(mediae_, analyzed, bySource) ==
    IF mediae_ = <<>> THEN [mediae |-> analyzed, bySource |-> bySource, err |-> FALSE]
    ELSE LET media == Head(mediae_)
         IN  IF isValidURL(media.Source)
             THEN AnalyzeLanguage(Tail(mediae_),
                      Append(analyzed, [ID |-> "", Source |-> media.Source, Online |-> TRUE]),
                      bySource)
             ELSE IF media.Source \in bySource
             THEN AnalyzeLanguage(Tail(mediae_),
                      Append(analyzed, AnalyzeMediaFile(media.Source).media), bySource)
             ELSE IF AnalyzeMediaFile(media.Source).err
             THEN [mediae |-> <<>>, bySource |-> bySource, err |-> TRUE]
             ELSE AnalyzeLanguage(Tail(mediae_),
                      Append(analyzed, AnalyzeMediaFile(media.Source).media),
                      bySource \cup {media.Source})

\* AnalyzeAllMediae, its loop over the languages in the order langs: the first
\* analysis that fails ends it with an empty map and the error.
RECURSIVE AnalyzeLanguages(_, _, _, _)
AnalyzeLanguages(langs, embedDeclarations, analyzed, bySource) ==
    IF langs = <<>> THEN [mediae |-> analyzed, err |-> FALSE]
    ELSE LET r == AnalyzeLanguage(embedDeclarations[Head(langs)], <<>>, bySource)
         IN  IF r.err THEN [mediae |-> EmptyMap, err |-> TRUE]
             ELSE AnalyzeLanguages(Tail(langs), embedDeclarations,
                                   Put(analyzed, Head(langs), r.mediae), r.bySource)

AnalyzeAllMediae(embedDeclarations, langs) ==
    AnalyzeLanguages(langs, embedDeclarations, EmptyMap, {})

\* A call of AnalyzeAllMediae on the description's declarations.
AnalyzeAll ==
    /\ ~analyzedAll
    /\ \E langs \in LanguageOrders :
          allAnalyzed' = AnalyzeAllMediae(description.mediaEmbedDeclarations, langs)
    /\ analyzedAll' = TRUE
    /\ UNCHANGED <<description, unreadable, analyzedMediae, localizedContent, buildErr, built>>
    /\ UNCHANGED <<buildVars, altVars, againVars, langVars, headerVars, parseVars, staleVars>>

InitWork ==
    /\ \E bodies \in [Languages -> BlockSeqsUpTo(MaxBlocks)] :
          description = ParsedDescription(bodies)
    /\ unreadable \in SUBSET MediaFiles
    /\ analyzedMediae = EmptyMap
    /\ localizedContent = EmptyMap
    /\ buildErr = ""
    /\ built = FALSE
    /\ allAnalyzed = [mediae |-> EmptyMap, err |-> FALSE]
    /\ analyzedAll = FALSE
    /\ OthersIdle
    /\ AltIdle
    /\ fs = [i \in Items |-> "nodesc"]
    /\ outFile = AbsentFile
    /\ BuildIdle

NextWork == Build \/ AnalyzeAll

SpecWork == InitWork /\ [][NextWork]_vars

\* ------------------------------------------------------------ properties of the build

\* The works an invocation's loop has handled so far.
Processed(p) == {workDirectories[p][i] : i \in 1..(idx[p] - 1)}
\* The invocation has run WriteDatabase.
Wrote(p) == pc[p] \in {"release", "done"} /\ err[p] = ""

\* C1: no two invocations are at once between a successful AcquireBuildLock and
\* their ReleaseBuildLock.
C1_MutualExclusion == Cardinality({p \in Procs : pc[p] \in Holding}) <= 1

C3_Rejection ==
    [][\A p \in Procs :
          /\ (pc[p] = "acquire" /\ lockFile /\ pc'[p] # "acquire")
                => /\ pc'[p] = "aborted"
                   /\ err'[p] = "BuildInProgress"
                   /\ lockFile'
                   /\ outFile' = outFile
                   /\ works'[p] = EmptyMap
                   /\ idx'[p] = 0
          /\ err[p] = "BuildInProgress"
                => /\ pc'[p] = "aborted"
                   /\ works'[p] = EmptyMap
                   /\ (lockFile' # lockFile \/ outFile' # outFile => \E q \in Procs \ {p} : pc'[q] # pc[q])
      ]_vars

C3_Witness ==
    \E p, q \in Procs :
        /\ pc[p] = "aborted" /\ err[p] = "BuildInProgress"
        /\ pc[q] \in Holding
        /\ lockFile

\* C4: a work a finished build wrote, which a later build excludes while its
\* directory still holds a description, is in the later build's output with the
\* entry the earlier build wrote.
C4_CarryOverAcrossRuns ==
    \A p, q \in Procs : \A x \in Candidates :
        (/\ p \in startedAfter[q]
         /\ pc[p] = "done" /\ pc[q] = "done"
         /\ x \in DOMAIN works[p]
         /\ ~Malformed(include[q]) /\ ~Included(include[q], x))
        => (x \in DOMAIN works[q] /\ works[q][x] = works[p][x])

\* C5: a build that ran to its end handled every candidate, and its output has no
\* entry for an included work whose ctx.Build failed.
C5_FailedWorkOmitted ==
    \A p \in Procs :
        Wrote(p) =>
            /\ Processed(p) = Candidates
            /\ \A x \in Candidates :
                (Included(include[p], x) /\ fs[x] = "broken") => x \notin DOMAIN works[p]

\* C6: every handled candidate was rebuilt (included), carried over (excluded,
\* in the previous database) or skipped (excluded, not in it); the output's keys
\* are candidates, and a skipped work has no entry.
C6_MembershipDecision ==
    \A p \in Procs :
        /\ DOMAIN works[p] \subseteq Processed(p)
        /\ Processed(p) \subseteq Candidates
        /\ Wrote(p) => Processed(p) = Candidates
        /\ \A x \in Processed(p) :
            /\ Included(include[p], x)
                => x \in DOMAIN works[p] /\ works[p][x] \in {r.work : r \in BuildResults(x)}
            /\ (~Included(include[p], x) /\ PresentBefore(prev[p], x))
                => x \in DOMAIN works[p] /\ works[p][x] = OldWork(prev[p], x)
            /\ (~Included(include[p], x) /\ ~PresentBefore(prev[p], x))
                => x \notin DOMAIN works[p]

\* One finished build rebuilt a work and carried another over, the other finished
\* build skipped a work.
C6_Witness ==
    \E p, q \in Procs : \E x, y \in Candidates :
        /\ pc[p] = "done" /\ pc[q] = "done"
        /\ Included(include[p], x) /\ x \in DOMAIN works[p]
        /\ ~Included(include[p], y) /\ y \in DOMAIN works[p]
        /\ ~Included(include[q], y) /\ y \notin DOMAIN works[q]

\* C7: of two BuildAll runs one after the other on the same sources, the second
\* writes the works the first wrote, block IDs included.
C7_BuildIdempotent ==
    \A p, q \in Procs :
        (/\ p \in startedAfter[q]
         /\ pc[p] = "done" /\ pc[q] = "done"
         /\ include[p] = "*" /\ include[q] = "*")
        => works[q] = works[p]

\* C8: of two builds run to completion one after the other, the second leaves a
\* build timestamp strictly later than the first left.
C8_TimestampAdvances ==
    \A p, q \in Procs :
        (p \in startedAfter[q] /\ pc[p] = "done" /\ pc[q] = "done")
        => metaAtEnd[q] > metaAtEnd[p]

\* ------------------------------------------------------------ properties of the sigil decoder

\* The alt text without its trailing run of sigils.
RECURSIVE DropSigils(_)
DropSigils(s) ==
    IF Len(s) > 0 /\ isMediaEmbedAttribute(s[Len(s)]) THEN DropSigils(SubSeq(s, 1, Len(s) - 1))
    ELSE s
\* The visible text T of an alt text T, one optional space, sigils.
VisibleText(s) ==
    LET t == DropSigils(s)
    IN  IF Len(t) > 0 /\ t[Len(t)] = " " THEN SubSeq(t, 1, Len(t) - 1) ELSE t
EndsInSigil(s) == Len(s) > 0 /\ isMediaEmbedAttribute(s[Len(s)])
EndsInSpace(s) == Len(s) > 0 /\ s[Len(s)] = " "

\* C9: for visible text T (not ending in a space or sigil), an optional space and
\* a run of sigils, the clean alt is T; "a photo>" gives "a photo", autoplay and muted.
C9_CleanAltIsVisibleText ==
    extracted =>
        /\ (EndsInSigil(alt) /\ ~EndsInSpace(VisibleText(alt))) => cleanAlt = VisibleText(alt)
        /\ alt = APhotoAutoplay
            => /\ cleanAlt = APhoto
               /\ attrs = [Loop |-> FALSE, Autoplay |-> TRUE, Muted |-> TRUE,
                           Playsinline |-> FALSE, Controls |-> TRUE]

\* C10: autoplay implies muted, controls is off exactly when playsinline is on,
\* and an alt text not ending in a sigil comes back unchanged with the defaults.
C10_AttributesInvariant ==
    extracted =>
        /\ attrs.Autoplay => attrs.Muted
        /\ attrs.Controls = ~attrs.Playsinline
        /\ ~EndsInSigil(alt) => (cleanAlt = alt /\ attrs = DefaultAttributes)

C10_Witness ==
    /\ extracted
    /\ alt = <<"a", " ", ">", "=">>
    /\ attrs.Autoplay /\ attrs.Muted /\ ~attrs.Controls /\ attrs.Playsinline

\* C11: decoding the clean alt a first decoding returned gives it back unchanged,
\* with the default attributes.
C11_DecodeIdempotent ==
    extractedAgain => (cleanAgain = cleanAlt /\ attrsAgain = DefaultAttributes)

\* The errors that abort the whole run: the media directory cannot be created, the
\* lock is held, the item root cannot be read.
FatalErrors == {"MediaDir", "BuildInProgress", "ReadDir"}

\* C20: the step that meets a fatal error builds no work and writes neither the
\* output file nor the build metadata; from then on the invocation only returns
\* (through the deferred release when it holds the lock), with no work built, and the
\* output file and the build metadata change only by a step of another invocation.
C20_FatalErrorsAbort ==
    [][\A p \in Procs :
          /\ (err[p] = "" /\ err'[p] \in FatalErrors)
                => /\ pc'[p] \in {"release", "aborted"}
                   /\ works'[p] = EmptyMap
                   /\ idx'[p] = 0
                   /\ outFile' = outFile
                   /\ metaFile' = metaFile
          /\ err[p] \in FatalErrors
                => /\ err'[p] = err[p]
                   /\ pc'[p] \in {"release", "aborted"}
                   /\ works'[p] = EmptyMap
                   /\ idx'[p] = 0
                   /\ (outFile' # outFile \/ metaFile' # metaFile
                         => \E q \in Procs \ {p} : pc'[q] # pc[q] \/ idx'[q] # idx[q])
      ]_vars

C20_Witness ==
    \E p, q \in Procs :
        /\ pc[p] = "aborted" /\ err[p] = "ReadDir"
        /\ pc[q] = "aborted" /\ err[q] = "MediaDir"
        /\ outFile = AbsentFile
        /\ metaFile = 0

\* The languages the marker lines of a text name.
MarkerLanguages(raw) ==
    {LanguageMarkerSubmatch(l) : l \in {StringsSplit(raw)[i] : i \in 1..Len(StringsSplit(raw))}
                                       \cap {l \in BodyLines : MatchLanguageMarker(l)}}
\* The text has no preamble and marks the languages en and fr, and only those.
MarksEnThenFr(raw) ==
    /\ MatchLanguageMarker(StringsSplit(raw)[1])
    /\ MarkerLanguages(raw) = {<<"e", "n">>, <<"f", "r">>}
\* Some line of the text is a language marker.
HoldsMarkerLine(text) ==
    \E i \in 1..Len(StringsSplit(text)) : MatchLanguageMarker(StringsSplit(text)[i])

\* C12: of a body with no preamble that marks en and fr, the preamble returned is
\* empty, the buckets are en and fr, and no bucket holds a marker line.
C12_MarkerLinesExcluded ==
    (splitDone /\ MarksEnThenFr(markdownRaw))
        => /\ before = <<>>
           /\ DOMAIN markdownRawPerLanguage = {<<"e", "n">>, <<"f", "r">>}
           /\ \A k \in DOMAIN markdownRawPerLanguage : ~HoldsMarkerLine(markdownRawPerLanguage[k])

\* Every tab of a text replaced by four spaces.
RECURSIVE ExpandEveryTab(_)
ExpandEveryTab(text) ==
    IF Len(text) = 0 THEN <<>>
    ELSE (IF text[1] = "\t" THEN <<" ", " ", " ", " ">> ELSE <<text[1]>>)
             \o ExpandEveryTab(Tail(text))
\* The positions of the delimiter lines among the lines of a document.
Delimiters(lines) == {i \in 1..Len(lines) : IsHeaderSeparator(lines[i])}
\* The lines at the positions of a set, in order, each followed by a newline, with
\* every tab expanded.
RECURSIVE TextOfLines(_, _, _)
TextOfLines(lines, i, positions) ==
    IF i > Len(lines) THEN <<>>
    ELSE (IF i \in positions THEN ExpandEveryTab(lines[i]) \o <<"\n">> ELSE <<>>)
             \o TextOfLines(lines, i + 1, positions)
Opening(delimiters) == CHOOSE i \in delimiters : \A j \in delimiters : i <= j
Closing(delimiters) == CHOOSE i \in delimiters : \A j \in delimiters : i >= j

\* C13: of a document with exactly two delimiter lines, the header text is the lines
\* strictly between them and the body text is the other lines that are not
\* delimiters, each in the document's order, once each, up to the expansion of tabs.
C13_HeaderBodyPartition ==
    headerDone =>
        LET lines == StringsSplit(descriptionRaw)
            delimiters == Delimiters(lines)
        IN  Cardinality(delimiters) = 2 =>
                LET opening == Opening(delimiters)
                    closing == Closing(delimiters)
                IN  /\ ExpandEveryTab(rawYAMLPart)
                         = TextOfLines(lines, 1, (opening + 1)..(closing - 1))
                    /\ ExpandEveryTab(markdownPart)
                         = TextOfLines(lines, 1, (1..Len(lines)) \ (opening..closing))

C13_Witness ==
    /\ headerDone
    /\ descriptionRaw = JoinLines(<<<<"a">>, <<"-", "-", "-">>, KeyLine, <<"-", "-", "-", "-">>>>)
    /\ rawYAMLPart = KeyLine \o <<"\n">>
    /\ markdownPart = <<"a", "\n">>

\* The lines of a text that are not empty, in order.
FullLines(text) == SelectSeq(StringsSplit(text), LAMBDA l : l # <<>>)

\* C14: of a document with no delimiter line or one, the metadata decoded is empty
\* and the body holds, in order, every line of the document that is neither a
\* delimiter nor empty.
C14_NoPairNoHeader ==
    headerDone =>
        LET lines == StringsSplit(descriptionRaw)
            delimiters == Delimiters(lines)
        IN  Cardinality(delimiters) <= 1 =>
                /\ metadata = EmptyMap
                /\ FullLines(ExpandEveryTab(markdownPart))
                     = FullLines(TextOfLines(lines, 1, (1..Len(lines)) \ delimiters))

\* C15: neither the header text nor the body text holds a tab.
C15_NoTabLeft ==
    headerDone => /\ \A i \in 1..Len(rawYAMLPart) : rawYAMLPart[i] # "\t"
                  /\ \A i \in 1..Len(markdownPart) : markdownPart[i] # "\t"

\* The IDs of the blocks emitted so far.
EmittedIds ==
    {paragraphs[i].ID : i \in 1..Len(paragraphs)}
        \cup {mediae[i].ID : i \in 1..Len(mediae)}
        \cup {links[i].ID : i \in 1..Len(links)}
EmittedCount == Len(paragraphs) + Len(mediae) + Len(links)
\* The generator has returned no value twice.
NoRepeat == \A i, j \in 1..Len(drawn) : i # j => drawn[i] # drawn[j]

\* C16: the IDs of the emitted paragraphs, media embeds and links are pairwise
\* distinct.
C16_BlockIdsDistinct == Cardinality(EmittedIds) = EmittedCount

\* The blocks' IDs are pairwise distinct whenever the generator has returned no
\* value twice during the call: each block takes the ID of its own pass.
BlockIdsDistinctUnlessRepeat == NoRepeat => Cardinality(EmittedIds) = EmittedCount

\* The nodes that are abbreviation definitions or language markers.
Unemitted == {AbbrNodeAPI, AbbrNodeUI, MarkerNode}
\* The IDs drawn for the nodes from i to the loop's position that emit a block.
RECURSIVE IdsInEncounterOrder(_)
IdsInEncounterOrder(i) ==
    IF i >= nodeIdx THEN <<>>
    ELSE (IF paragraphLike[i] \in Unemitted THEN <<>> ELSE <<drawn[i]>>)
             \o IdsInEncounterOrder(i + 1)
\* The number of blocks with an ID.
BlocksWithId(id) ==
    Cardinality({i \in 1..Len(paragraphs) : paragraphs[i].ID = id})
        + Cardinality({i \in 1..Len(mediae) : mediae[i].ID = id})
        + Cardinality({i \in 1..Len(links) : links[i].ID = id})

C18_AbbreviationsReachOutput ==
    parsePc = "returned"
        => \A i \in 1..Len(paragraphs) :
             ~IsPreformatted(paragraphs[i].Content)
                => \A k \in 1..Len(paragraphs[i].Content.inner) :
                     LET w == paragraphs[i].Content.inner[k]
                     IN  w.word \in DOMAIN abbreviations => w.abbr = abbreviations[w.word]

LinesOf(text) ==
    LET pieces == StringsSplit(text) IN SubSeq(pieces, 1, Len(pieces) - 1)
\* The lines from position i on that are not markers and whose most recent marker
\* before them names the language; current is the language in force at i (<<>>
\* before the first marker).
RECURSIVE LinesUnder(_, _, _, _)
LinesUnder(lines, i, current, language) ==
    IF i > Len(lines) THEN <<>>
    ELSE IF MatchLanguageMarker(lines[i])
    THEN LinesUnder(lines, i + 1, LanguageMarkerSubmatch(lines[i]), language)
    ELSE (IF current = language THEN <<lines[i]>> ELSE <<>>)
             \o LinesUnder(lines, i + 1, current, language)

\* C25: the preamble is the lines before the first marker; the buckets are those of
\* the languages marked; and the lines of a bucket that are not markers are, in
\* order, all the lines that follow a marker of its language with no other marker in
\* between, whichever occurrence of the marker that is.
C25_BucketsAccumulate ==
    splitDone =>
        LET lines == StringsSplit(markdownRaw)
            languages == {LanguageMarkerSubmatch(lines[i]) :
                             i \in {j \in 1..Len(lines) : MatchLanguageMarker(lines[j])}}
        IN  /\ LinesOf(before) = LinesUnder(lines, 1, <<>>, <<>>)
            /\ DOMAIN markdownRawPerLanguage = languages
            /\ \A l \in languages :
                 SelectSeq(LinesOf(markdownRawPerLanguage[l]), LAMBDA x : ~MatchLanguageMarker(x))
                    = LinesUnder(lines, 1, <<>>, l)

\* The second delimiter of a document that has two or more.
SecondDelimiter(delimiters) == Opening(delimiters \ {Opening(delimiters)})

\* C26: of a document with two delimiter lines or more, the header text is the lines
\* strictly between the first two, and the body holds, in order, every other line
\* that is not a delimiter, those after a later delimiter line included (up to the
\* expansion of tabs; the later delimiter lines themselves are not required).
C26_FirstPairOnly ==
    headerDone =>
        LET lines == StringsSplit(descriptionRaw)
            delimiters == Delimiters(lines)
        IN  Cardinality(delimiters) >= 2 =>
                LET opening == Opening(delimiters)
                    closing == SecondDelimiter(delimiters)
                IN  /\ ExpandEveryTab(rawYAMLPart)
                         = TextOfLines(lines, 1, (opening + 1)..(closing - 1))
                    /\ ExpandEveryTab(markdownPart)
                         = TextOfLines(lines, 1,
                                       ((1..Len(lines)) \ (opening..closing)) \ delimiters)

\* The paragraphs ReplaceAbbreviations is called on.
Substituted == SelectSeq(paragraphs, LAMBDA q : ~IsPreformatted(q.Content))
\* The abbreviation terms that occur as a word of a content.
TermsIn(content) ==
    {content.inner[k].word : k \in 1..Len(content.inner)} \cap DOMAIN abbreviations
\* Every word of the content that is a term is wrapped with the term's definition.
EveryTermWrapped(content) ==
    \A k \in 1..Len(content.inner) :
        content.inner[k].word \in DOMAIN abbreviations
            => content.inner[k].abbr = abbreviations[content.inner[k].word]

\* C27: what ReplaceAbbreviations returns for a paragraph in which two terms or more
\* occur has every occurrence of every term wrapped, and the paragraph's ID and
\* anchor.
C27_EveryAbbreviationApplied ==
    parsePc = "returned"
        => /\ Len(processedParagraphs) = Len(Substituted)
           /\ \A j \in 1..Len(Substituted) :
                Cardinality(TermsIn(Substituted[j].Content)) >= 2
                    => /\ EveryTermWrapped(processedParagraphs[j].Content)
                       /\ processedParagraphs[j].ID = Substituted[j].ID
                       /\ processedParagraphs[j].Anchor = Substituted[j].Anchor

\* The step is one of invocation p.
StepOf(p) == pc'[p] # pc[p] \/ idx'[p] # idx[p]
\* The step is p's WriteDatabase.
Writes(p) == pc[p] = "iterate" /\ pc'[p] = "release" /\ err'[p] = ""

\* C22: a step of an invocation changes the build metadata file only when that
\* invocation has written the output database.
C22_MetadataWrittenAtEnd ==
    [][\A p \in Procs : (StepOf(p) /\ metaFile' # metaFile) => Wrote(p)]_vars

\* C23: the output file changes only by the WriteDatabase step of an invocation
\* that is between its AcquireBuildLock and its ReleaseBuildLock; that step comes
\* when the loop has handled every directory listed, and is the invocation's only
\* one; works are handled only between the acquisition and that step.
C23_StateOrder ==
    [][/\ outFile' # outFile => \E p \in Procs : Writes(p)
       /\ \A p \in Procs :
            /\ Writes(p) => /\ pc[p] \in Holding
                            /\ Processed(p) = {workDirectories[p][i] : i \in 1..Len(workDirectories[p])}
                            /\ idx[p] = Len(workDirectories[p]) + 1
                            /\ outFile' = EncodeWorks(works[p])
            /\ (StepOf(p) /\ pc[p] \in {"release", "done", "aborted"}) => ~Writes(p)
            /\ (StepOf(p) /\ ~Writes(p)) => outFile' = outFile
            /\ (works'[p] # works[p] \/ (idx'[p] # idx[p] /\ idx[p] >= 1))
                    => pc[p] = "iterate" /\ pc'[p] = "iterate"
            /\ pc[p] \in {"start", "acquire", "lockwrite", "release", "done", "aborted"}
                    => works'[p] = works[p] /\ idx'[p] = idx[p]
      ]_vars

C23_Witness ==
    \E p \in Procs :
        /\ pc[p] = "release"
        /\ err[p] = ""
        /\ lockFile
        /\ Len(workDirectories[p]) = NumItems
        /\ DOMAIN works[p] = Items
        /\ outFile = EncodeWorks(works[p])

\* C29: while an invocation is in its loop and no other invocation is between the
\* lock file's test and its release, the previous database it carries over from is
\* what the output file holds.
C29_PreviousReadUnderLock ==
    \A q \in Procs :
        (/\ pc[q] \in {"compute", "iterate"}
         /\ \A p \in Procs \ {q} : pc[p] \notin (Holding \cup {"lockwrite"}))
            => prev[q] = DecodePrevious(outFile)

\* C30: when AcquireBuildLock returns nil, the lock file exists.
C30_AcquiredMeansLocked ==
    [][\A p \in Procs : (pc[p] = "lockwrite" /\ pc'[p] = "compute") => lockFile']_vars

Analyzable(declaration) ==
    isValidURL(declaration.Source) \/ declaration.Source \notin unreadable

SourcesOf(list) == [i \in 1..Len(list) |-> list[i].Source]

IDsOf(list) == [i \in 1..Len(list) |-> list[i].ID]

\* RunContext.Build's analyzed media of every language are the declarations whose
\* analysis does not fail, in their order.
BuildIsolatesFailures ==
    (built /\ buildErr # "ReadFile") =>
        \A l \in Languages :
            IDsOf(analyzedMediae[l])
                = IDsOf(SelectSeq(description.mediaEmbedDeclarations[l], Analyzable))

\* AnalyzeAllMediae returns no error, and for every language the media of the
\* declarations whose analysis does not fail, in their order.
AnalyzeAllIsolatesFailures ==
    analyzedAll =>
        /\ ~allAnalyzed.err
        /\ \A l \in Languages :
              /\ l \in DOMAIN allAnalyzed.mediae
              /\ SourcesOf(allAnalyzed.mediae[l])
                    = SourcesOf(SelectSeq(description.mediaEmbedDeclarations[l], Analyzable))

\* C21: when the analysis of a media embed fails, that media alone is left out: the
\* other media of the item, of the same and of the other languages, are analyzed and
\* kept, and the failure is not returned as an error; both in RunContext.Build's loop
\* and in AnalyzeAllMediae.
C21_MediaFailureIsolated == BuildIsolatesFailures /\ AnalyzeAllIsolatesFailures

\* Every declared media of the description can be analyzed.
NoFailedMedia ==
    \A l \in Languages :
        \A i \in 1..Len(description.mediaEmbedDeclarations[l]) :
            Analyzable(description.mediaEmbedDeclarations[l][i])

\* C28: for every language of an item RunContext.Build built without error, the IDs
\* of the output Blocks are the language's content-block order: the same IDs in the
\* same order, none dropped and none added, also when a media embed failed analysis.
C28_BlocksMirrorOrder ==
    (built /\ buildErr = "") =>
        \A l \in Languages :
            IDsOf(localizedContent[l].Blocks) = description.contentBlocksOrders[l]

BlocksMirrorOrderWithoutFailure == NoFailedMedia => C28_BlocksMirrorOrder
====
